---- MODULE Spec2Model ----
(***************************************************************************)
(* The OCS re-encryption protocol of ocs/protocol/ocs.go: the coordinator  *)
(* (root of a star tree of n nodes) broadcasts a Reencrypt request, every  *)
(* child answers with a share and a proof or with an empty reply, and the  *)
(* coordinator counts refusals and replies and publishes one boolean on    *)
(* the channel Reencrypted.                                                *)
(*                                                                         *)
(* Group elements are written as their discrete logarithm to the base G    *)
(* in the additive group Z_Q, scalars are elements of Z_Q.                 *)
(***************************************************************************)
EXTENDS Integers, Sequences, FiniteSets, TLC

\* ---------------------------------------------------------------- bounds
\* largest roster
MaxN == 4
\* order of the group the points and scalars live in
Q == 7
\* the random scalars si a node may draw are 1..MaxRand
MaxRand == 1
\* number of dishonest children in a run
MaxByz == 1
\* largest DKG index the coordinator holds
MaxRootIndex == 1
\* how many times a dishonest child repeats a reply
MaxResend == 1
\* the roster of the runs with honest nodes only
BigN == 7
\* devices an identity can name
MaxDev == 2
\* largest Threshold of a configuration
MaxThreshold == 2
\* data skipblocks added after the genesis block
MaxBlocks == 1
\* ProposeVote calls that can be in progress at once
MaxCalls == 1
\* ProposeVote calls that run concurrently on one proposal
MaxRace == 2
\* data skipblocks that concurrent calls can add
MaxRaceBlocks == 2

\* ---------------------------------------------------------------- values
\* Go's nil
Nil == -1
\* a nil *share.PubShare, the Ui of an empty ReencryptReply{}
NilShare == [I |-> Nil, V |-> Nil]
\* a nil *SharedSecret
NilShared == [Index |-> Nil, V |-> Nil]
\* ReencryptReply{}
EmptyReply == [Ui |-> NilShare, Ei |-> Nil, Fi |-> Nil]

\* the base point of the suite, Point().Mul(s, nil) multiplies it
G == 1
\* the ciphertext point and the client's key of the run, when set
UPoint == 2
XcPoint == 1

\* Suite.Point().Add
PointAdd(a, b) == (a + b) % Q
\* Suite.Point().Mul(s, p)
PointMul(s, p) == (s * p) % Q
\* Suite.Scalar().Neg
ScalarNeg(e) == (Q - e) % Q
\* Suite.Scalar().Add and Mul
ScalarAdd(a, b) == (a + b) % Q
ScalarMul(a, b) == (a * b) % Q

\* sha256 over the three marshalled points, reduced to a scalar by SetBytes
Hash(a, b, c) == (1 + a + 2 * b + 3 * c * c + a * b * c) % Q

\* the secret polynomial of the DKG: the share of index i is its value at i+1
SecretOf(i) == (1 + (i + 1)) % Q
\* Poly.Eval(i).V, the public key share of index i
PolyEval(i) == PointMul(SecretOf(i), G)

\* ---------------------------------------------------------------- state
VARIABLES
    n,            \* len(Roster().List)
    Shared,       \* the coordinator's o.Shared
    U,            \* o.U
    Xc,           \* o.Xc
    Verify,       \* the coordinator's o.Verify: "nil", "accept" or "reject"
    hook,         \* o.Verify of every child
    dishonest,    \* the children that do not run reencrypt as written
    startErr,     \* "none" before Start, afterwards what Start returned
    requests,     \* children with a Reencrypt request in flight
    net,          \* replies in flight to the coordinator, per sender
    sent,         \* every reply a child has handed to the network, in order
    childDone,    \* the child's instance has called Done
    childErr,     \* what the child's handler returned: "none", "nil", "err"
    hookCalls,    \* calls of Verify per node (0 is the coordinator)
    work,         \* per node: the hook calls and computations done, in order
    Failures,     \* o.Failures
    replies,      \* o.replies
    Uis,          \* o.Uis
    Reencrypted,  \* the values sent on o.Reencrypted, in order
    done,         \* the coordinator's instance has called Done
    pf,           \* one proof on its way from generation to verification
    sid,          \* the Storage of one identity on the service
    calls,        \* the ProposeVote calls: where each stands and what it returned
    chain         \* the data skipblocks added by AddSkipBlock, in order

ocsVars == <<n, Shared, U, Xc, Verify, hook, dishonest, startErr, requests, net,
             sent, childDone, childErr, hookCalls, work, Failures, replies, Uis,
             Reencrypted, done>>

idVars == <<sid, calls, chain>>

vars == <<ocsVars, pf, idVars>>

config == <<n, Shared, U, Xc, Verify, hook, dishonest>>

\* o.Children() of the root of the star tree: nodes 1..n-1
Children == 1 .. (n - 1)

\* NewOCS: Threshold
ThresholdOf(nodes) == nodes - (nodes - 1) \div 3
Threshold == ThresholdOf(n)

\* the tolerated number of failed sends in Start
BroadcastBudget(nodes) == (nodes - 1) \div 3

\* the DKG index of child c: the indices the coordinator does not hold, in order
IndexOf(c) == IF c <= Shared.Index THEN c - 1 ELSE c
\* the child's o.Shared
SharedOf(c) == [Index |-> IndexOf(c), V |-> SecretOf(IndexOf(c))]

\* OCS.getUI
getUI(shared, u, xc) ==
    LET v == PointMul(shared.V, u)
    IN  [I |-> shared.Index, V |-> PointAdd(v, PointMul(shared.V, xc))]

\* uiHat and hiHat of reencrypt for the random scalar si
CommitUiHat(si, u, xc) == PointMul(si, PointAdd(u, xc))
CommitHiHat(si) == PointMul(si, G)

\* the reply reencrypt builds with the random scalar si
HonestReply(shared, u, xc, si) ==
    LET ui    == getUI(shared, u, xc)
        uiHat == CommitUiHat(si, u, xc)
        hiHat == CommitHiHat(si)
        ei    == Hash(ui.V, uiHat, hiHat)
    IN  [Ui |-> ui, Ei |-> ei, Fi |-> ScalarAdd(si, ScalarMul(ei, shared.V))]

\* RecomputedUiHat with the negation of Ei left out
RecomputedUiHatNoNeg(r, u, xc) ==
    LET ufi   == PointMul(r.Fi, PointAdd(u, xc))
        uiei  == PointMul(r.Ei, r.Ui.V)
    IN  PointAdd(ufi, uiei)

\* uiHat as the coordinator recomputes it for reply r
RecomputedUiHat(r, u, xc) ==
    LET ufi   == PointMul(r.Fi, PointAdd(u, xc))
        uiei  == PointMul(ScalarNeg(r.Ei), r.Ui.V)
    IN  PointAdd(ufi, uiei)

\* hiHat as the coordinator recomputes it for reply r
RecomputedHiHat(r) ==
    LET gfi   == PointMul(r.Fi, G)
        gxi   == PolyEval(r.Ui.I)
        hiei  == PointMul(ScalarNeg(r.Ei), gxi)
    IN  PointAdd(gfi, hiei)

\* the challenge the coordinator recomputes for reply r
Recomputed(r, u, xc) ==
    Hash(r.Ui.V, RecomputedUiHat(r, u, xc), RecomputedHiHat(r))

\* e.Equal(r.Ei)
ProofOK(r, u, xc) == Recomputed(r, u, xc) = r.Ei

\* the loop over o.replies that fills o.Uis
RECURSIVE FillUis(_, _, _, _)
FillUis(uis, rs, u, xc) ==
    IF rs = <<>> THEN uis
    ELSE LET r == Head(rs)
         IN  FillUis(IF ProofOK(r, u, xc) THEN [uis EXCEPT ![r.Ui.I] = r.Ui] ELSE uis,
                     Tail(rs), u, xc)

\* o.Uis after the success branch of reencryptReply
BuildUis(nodes, shared, rs, u, xc) ==
    FillUis([i \in 0 .. (nodes - 1) |-> IF i = 0 THEN getUI(shared, u, xc) ELSE NilShare],
            rs, u, xc)

\* TooManyFailures with the threshold itself as the limit
TooManyFailuresLate(failures, children, threshold) == failures >= threshold

\* the failure test of reencryptReply
TooManyFailures(failures, children, threshold) == failures >= children - threshold

\* FailuresAfter with the increment left out
FailuresAfterStuck(failures) == failures

\* o.Failures++
FailuresAfter(failures) == failures + 1

\* the success test of reencryptReply
EnoughReplies(count, threshold) == count >= threshold - 1

\* Done with the call of o.Done() left out
DoneOmitted(d) == d

\* o.Done(): the instance is closed, no handler is dispatched afterwards
Done(d) == TRUE

\* the test on the errors of Broadcast
BroadcastFailed(errs, nodes) == errs > BroadcastBudget(nodes)

\* no proof is under way
PfIdle == [stage |-> "off", i |-> 0, s |-> 0, u |-> 0, xc |-> 0, reply |-> EmptyReply,
           uiHat |-> Nil, hiHat |-> Nil, e |-> Nil]

\* ------------------------------------------------ identity: the values
Devices == 1 .. MaxDev
Calls == 1 .. MaxCalls

\* a nil *identity.Config
NilConfig == [Device |-> {}, Threshold |-> Nil]
\* identity.Config: the device names (the first m devices) and the Threshold
Configs == [Device : {1 .. m : m \in Devices}, Threshold : 1 .. MaxThreshold]

RECURSIVE DeviceBits(_)
DeviceBits(ds) ==
    IF ds = {} THEN 0
    ELSE LET d == CHOOSE x \in ds : TRUE
         IN  2 ^ (d - 1) + DeviceBits(ds \ {d})

\* Config.Hash()
HashConfig(c) == c.Threshold * 2 ^ MaxDev + DeviceBits(c.Device)

\* owner.Point of the device named d
KeyOf(d) == 10 + d
\* a nil *crypto.SchnorrSig
NilSig == [by |-> Nil, over |-> Nil]
\* the signature made with the private key of public key k over hash h
SignSchnorr(k, h) == [by |-> k, over |-> h]
\* crypto.VerifySchnorr returns no error
VerifySchnorr(k, h, sig) == sig.by = k /\ sig.over = h

\* no identity was created on the service
NoStorage == [Latest |-> NilConfig, Proposed |-> NilConfig, Votes |-> <<>>, Data |-> 0]

IdIdle ==
    /\ sid = NoStorage
    /\ calls = <<>>
    /\ chain = <<>>

\* ---------------------------------------------------------------- Init
Init ==
    /\ pf = PfIdle
    /\ IdIdle
    /\ n \in 1 .. MaxN
    /\ Shared \in {NilShared} \cup {[Index |-> i, V |-> SecretOf(i)] :
                                    i \in {j \in 0 .. (n - 1) : j <= MaxRootIndex}}
    /\ U \in {Nil, UPoint}
    /\ Xc = XcPoint
    /\ Verify \in {"nil", "accept", "reject"}
    /\ hook \in [Children -> {"accept", "reject"}] \cup {[c \in Children |-> "nil"]}
    /\ dishonest \in {d \in SUBSET Children : Cardinality(d) <= MaxByz}
    /\ startErr = "none"
    /\ requests = {}
    /\ net = [c \in Children |-> <<>>]
    /\ sent = [c \in Children |-> <<>>]
    /\ childDone = [c \in Children |-> FALSE]
    /\ childErr = [c \in Children |-> "none"]
    /\ hookCalls = [i \in 0 .. (n - 1) |-> 0]
    /\ work = [i \in 0 .. (n - 1) |-> <<>>]
    /\ Failures = 0
    /\ replies = <<>>
    /\ Uis = <<>>
    /\ Reencrypted = <<>>
    /\ done = FALSE

\* ---------------------------------------------------------------- actions
\* StartOutcome with the policy hook consulted only after the Broadcast
StartOutcomeBroadcastFirst(shared, u, verify) ==
    IF shared = NilShared
    THEN [err |-> "shared", verified |-> 0, publish |-> <<>>, done |-> FALSE, broadcast |-> FALSE]
    ELSE IF u = Nil
    THEN [err |-> "u", verified |-> 0, publish |-> <<>>, done |-> FALSE, broadcast |-> FALSE]
    ELSE IF verify # "nil" /\ verify = "reject"
    THEN [err |-> "refused", verified |-> 1, publish |-> <<FALSE>>, done |-> TRUE, broadcast |-> TRUE]
    ELSE [err |-> "nil", verified |-> IF verify # "nil" THEN 1 ELSE 0,
          publish |-> <<>>, done |-> FALSE, broadcast |-> TRUE]

\* StartOutcome with the policy hook consulted before Shared and U are checked
StartOutcomeVerifyFirst(shared, u, verify) ==
    IF verify # "nil" /\ verify = "reject"
    THEN [err |-> "refused", verified |-> 1, publish |-> <<FALSE>>, done |-> TRUE, broadcast |-> FALSE]
    ELSE IF shared = NilShared
    THEN [err |-> "shared", verified |-> IF verify # "nil" THEN 1 ELSE 0,
          publish |-> <<>>, done |-> FALSE, broadcast |-> FALSE]
    ELSE IF u = Nil
    THEN [err |-> "u", verified |-> IF verify # "nil" THEN 1 ELSE 0,
          publish |-> <<>>, done |-> FALSE, broadcast |-> FALSE]
    ELSE [err |-> "nil", verified |-> IF verify # "nil" THEN 1 ELSE 0,
          publish |-> <<>>, done |-> FALSE, broadcast |-> TRUE]

\* OCS.Start up to the Broadcast: the error it returns ("nil" when it goes on
\* to the Broadcast), the calls of Verify, the values sent on Reencrypted,
\* whether Done is called and whether the request is broadcast
StartOutcome(shared, u, verify) ==
    IF shared = NilShared
    THEN [err |-> "shared", verified |-> 0, publish |-> <<>>, done |-> FALSE, broadcast |-> FALSE]
    ELSE IF u = Nil
    THEN [err |-> "u", verified |-> 0, publish |-> <<>>, done |-> FALSE, broadcast |-> FALSE]
    ELSE IF verify # "nil" /\ verify = "reject"
    THEN [err |-> "refused", verified |-> 1, publish |-> <<FALSE>>, done |-> TRUE, broadcast |-> FALSE]
    ELSE [err |-> "nil", verified |-> IF verify # "nil" THEN 1 ELSE 0,
          publish |-> <<>>, done |-> FALSE, broadcast |-> TRUE]

\* OCS.Start, with the set of children the Broadcast could not reach
Start ==
    /\ startErr = "none"
    /\ UNCHANGED <<config, net, sent, childDone, childErr, Failures, replies, Uis>>
    /\ LET out == StartOutcome(Shared, U, Verify)
       IN  /\ hookCalls' = [hookCalls EXCEPT ![0] = @ + out.verified]
           /\ work' = [work EXCEPT ![0] = @ \o [k \in 1 .. out.verified |-> "Verify"]]
           /\ Reencrypted' = Reencrypted \o out.publish
           /\ done' = IF out.done THEN Done(done) ELSE done
           /\ IF out.broadcast
              THEN \E failed \in SUBSET Children :
                      /\ requests' = Children \ failed
                      /\ startErr' = IF BroadcastFailed(Cardinality(failed), n)
                                     THEN "broadcast" ELSE out.err
              ELSE /\ requests' = requests
                   /\ startErr' = out.err

\* SendToParent(msg) of child c: the message is queued, or the send fails
SendToParent(c, msg, ok) ==
    /\ net' = IF ok THEN [net EXCEPT ![c] = Append(@, msg)] ELSE net
    /\ sent' = IF ok THEN [sent EXCEPT ![c] = Append(@, msg)] ELSE sent
    /\ childErr' = [childErr EXCEPT ![c] = IF ok THEN "nil" ELSE "err"]

\* what reencrypt does, in order, at a node whose hook is h: the share ui of
\* getUI, the call of the hook if there is one, the proof values
ReencryptWork(h) ==
    <<"getUI">> \o (IF h # "nil" THEN <<"Verify">> ELSE <<>>)
               \o (IF h # "nil" /\ h = "reject" THEN <<>> ELSE <<"proof">>)

\* OCS.reencrypt at an honest child c
reencrypt(c) ==
    /\ c \in requests
    /\ c \notin dishonest
    /\ ~childDone[c]
    /\ requests' = requests \ {c}
    /\ childDone' = [childDone EXCEPT ![c] = Done(@)]
    /\ work' = [work EXCEPT ![c] = @ \o ReencryptWork(hook[c])]
    /\ UNCHANGED <<config, startErr, Failures, replies, Uis, Reencrypted, done>>
    /\ \E ok \in BOOLEAN :
          IF hook[c] # "nil" /\ hook[c] = "reject"
          THEN /\ hookCalls' = [hookCalls EXCEPT ![c] = @ + 1]
               /\ SendToParent(c, EmptyReply, ok)
          ELSE /\ hookCalls' = [hookCalls EXCEPT ![c] = IF hook[c] # "nil" THEN @ + 1 ELSE @]
               /\ \E si \in 1 .. MaxRand :
                     SendToParent(c, HonestReply(SharedOf(c), U, Xc, si), ok)

\* the replies a dishonest child may send in place of the honest one
Forgeries(r) ==
    { r,
      [r EXCEPT !.Ui.V = (@ + 1) % Q],
      [r EXCEPT !.Ei = (@ + 1) % Q],
      [r EXCEPT !.Fi = (@ + 1) % Q] }

\* a dishonest child answers the request with a reply of its choice
forge(c) ==
    /\ c \in requests
    /\ c \in dishonest
    /\ ~childDone[c]
    /\ requests' = requests \ {c}
    /\ childDone' = [childDone EXCEPT ![c] = TRUE]
    /\ UNCHANGED <<config, startErr, hookCalls, work, Failures, replies, Uis,
                   Reencrypted, done>>
    /\ \E m \in Forgeries(HonestReply(SharedOf(c), U, Xc, 1)) \cup {EmptyReply} :
          SendToParent(c, m, TRUE)

\* a dishonest child sends its last reply once more
resend(c) ==
    /\ c \in dishonest
    /\ Len(sent[c]) >= 1
    /\ Len(sent[c]) < 1 + MaxResend
    /\ SendToParent(c, sent[c][Len(sent[c])], TRUE)
    /\ UNCHANGED <<config, startErr, requests, childDone, hookCalls, work, Failures,
                   replies, Uis, Reencrypted, done>>

\* OCS.reencryptReply on the next reply of child c
reencryptReply(c) ==
    /\ ~done
    /\ net[c] # <<>>
    /\ LET rr == Head(net[c])
       IN  /\ net' = [net EXCEPT ![c] = Tail(@)]
           /\ UNCHANGED <<config, startErr, requests, sent, childDone, childErr, hookCalls>>
           /\ IF rr.Ui = NilShare
              THEN /\ Failures' = FailuresAfter(Failures)
                   /\ IF TooManyFailures(FailuresAfter(Failures), Cardinality(Children), Threshold)
                      THEN /\ Reencrypted' = Append(Reencrypted, FALSE)
                           /\ done' = Done(done)
                      ELSE UNCHANGED <<Reencrypted, done>>
                   /\ UNCHANGED <<replies, Uis, work>>
              ELSE /\ replies' = Append(replies, rr)
                   /\ IF EnoughReplies(Len(replies) + 1, Threshold)
                      THEN /\ Uis' = BuildUis(n, Shared, Append(replies, rr), U, Xc)
                           /\ work' = [work EXCEPT ![0] = @ \o <<"getUI", "check">>]
                           /\ Reencrypted' = Append(Reencrypted, TRUE)
                           /\ done' = Done(done)
                      ELSE UNCHANGED <<Uis, work, Reencrypted, done>>
                   /\ UNCHANGED Failures

Next ==
    \/ Start /\ UNCHANGED <<pf, idVars>>
    \/ \E c \in Children : reencrypt(c) /\ UNCHANGED <<pf, idVars>>
    \/ \E c \in Children : forge(c) /\ UNCHANGED <<pf, idVars>>
    \/ \E c \in Children : resend(c) /\ UNCHANGED <<pf, idVars>>
    \/ \E c \in Children : reencryptReply(c) /\ UNCHANGED <<pf, idVars>>

Spec == Init /\ [][Next]_vars

\* ------------------------------------------------- a larger roster
\* a run in a roster of BigN nodes that all run the code as written; the
\* coordinator holds index 0 and has no hook, every child has one
InitLarge ==
    /\ pf = PfIdle
    /\ IdIdle
    /\ n = BigN
    /\ Shared = [Index |-> 0, V |-> SecretOf(0)]
    /\ U = UPoint
    /\ Xc = XcPoint
    /\ Verify = "nil"
    /\ hook \in [Children -> {"accept", "reject"}]
    /\ dishonest = {}
    /\ startErr = "none"
    /\ requests = {}
    /\ net = [c \in Children |-> <<>>]
    /\ sent = [c \in Children |-> <<>>]
    /\ childDone = [c \in Children |-> FALSE]
    /\ childErr = [c \in Children |-> "none"]
    /\ hookCalls = [i \in 0 .. (n - 1) |-> 0]
    /\ work = [i \in 0 .. (n - 1) |-> <<>>]
    /\ Failures = 0
    /\ replies = <<>>
    /\ Uis = <<>>
    /\ Reencrypted = <<>>
    /\ done = FALSE

NextLarge ==
    \/ Start /\ UNCHANGED <<pf, idVars>>
    \/ \E c \in Children : reencrypt(c) /\ UNCHANGED <<pf, idVars>>
    \/ \E c \in Children : reencryptReply(c) /\ UNCHANGED <<pf, idVars>>

SpecLarge == InitLarge /\ [][NextLarge]_vars

\* ------------------------------------------------- the proof on its own
\* the protocol variables of a node on which no run was started
OcsIdle ==
    /\ n = 1
    /\ Shared = NilShared
    /\ U = Nil
    /\ Xc = XcPoint
    /\ Verify = "nil"
    /\ hook = [c \in Children |-> "nil"]
    /\ dishonest = {}
    /\ startErr = "none"
    /\ requests = {}
    /\ net = [c \in Children |-> <<>>]
    /\ sent = [c \in Children |-> <<>>]
    /\ childDone = [c \in Children |-> FALSE]
    /\ childErr = [c \in Children |-> "none"]
    /\ hookCalls = [i \in 0 .. (n - 1) |-> 0]
    /\ work = [i \in 0 .. (n - 1) |-> <<>>]
    /\ Failures = 0
    /\ replies = <<>>
    /\ Uis = <<>>
    /\ Reencrypted = <<>>
    /\ done = FALSE

\* a share index (the secret is SecretOf(i)), a random scalar and two points
InitProof ==
    /\ OcsIdle
    /\ IdIdle
    /\ pf \in {[PfIdle EXCEPT !.stage = "input", !.i = i, !.s = si, !.u = u, !.xc = xc] :
                 i \in 0 .. (Q - 1), si \in 0 .. (Q - 1), u \in 0 .. (Q - 1), xc \in 0 .. (Q - 1)}

\* the proof generation of reencrypt
Generate ==
    /\ pf.stage = "input"
    /\ pf' = [pf EXCEPT !.stage = "generated",
                        !.reply = HonestReply([Index |-> pf.i, V |-> SecretOf(pf.i)],
                                              pf.u, pf.xc, pf.s)]
    /\ UNCHANGED <<ocsVars, idVars>>

\* the proof verification of reencryptReply
VerifyProof ==
    /\ pf.stage = "generated"
    /\ pf' = [pf EXCEPT !.stage = "verified",
                        !.uiHat = RecomputedUiHat(pf.reply, pf.u, pf.xc),
                        !.hiHat = RecomputedHiHat(pf.reply),
                        !.e = Recomputed(pf.reply, pf.u, pf.xc)]
    /\ UNCHANGED <<ocsVars, idVars>>

NextProof ==
    \/ Generate
    \/ VerifyProof

SpecProof == InitProof /\ [][NextProof]_vars

\* ------------------------------------------------ the identity service
\* a call slot in which no ProposeVote is in progress
IdleCall == [pc |-> "idle", Signer |-> Nil, Signature |-> NilSig, result |-> "none",
             block |-> 0]

\* the closure of ProposeVote that runs under sid.Lock(): "nil" or the error
VoteCheck(s, signer, sig) ==
    IF s.Proposed = NilConfig THEN "panic"
    ELSE IF signer \notin s.Latest.Device THEN "ErrorAccountMissing"
    ELSE IF s.Proposed = NilConfig THEN "ErrorConfigMissing"
    ELSE IF signer \in DOMAIN s.Votes THEN "ErrorVoteDouble"
    ELSE IF sig # NilSig /\ ~VerifySchnorr(KeyOf(signer), HashConfig(s.Proposed), sig)
         THEN "ErrorVoteSignature"
    ELSE "nil"

\* propagateConfigHandler on a ProposeSend
StoreProposal(s, p) == [s EXCEPT !.Proposed = p, !.Votes = <<>>]

\* propagateConfigHandler on a ProposeVote: sid.Votes[v.Signer] = v.Signature
StoreVote(s, signer, sig) ==
    [s EXCEPT !.Votes = [d \in DOMAIN s.Votes \cup {signer} |->
                            IF d = signer THEN sig ELSE s.Votes[d]]]

\* propagateSkipBlockHandler
StoreSkipBlock(s, b, al) == [s EXCEPT !.Data = b, !.Latest = al, !.Proposed = NilConfig]

\* the test of ProposeVote on the number of votes
EnoughVotes(s) ==
    \/ Cardinality(DOMAIN s.Votes) >= s.Latest.Threshold
    \/ Cardinality(DOMAIN s.Votes) = Cardinality(s.Latest.Device)

\* the call in slot k has returned res
Returned(k, res) ==
    calls' = [calls EXCEPT ![k].pc = "idle", ![k].Signature = NilSig, ![k].result = res]

\* the signatures a caller sends: none, its own over the pending proposal,
\* or its own over something else
VoteSignatures(signer) ==
    {NilSig, SignSchnorr(KeyOf(signer), HashConfig(sid.Proposed)),
     SignSchnorr(KeyOf(signer), 0)}

\* an identity was created with some configuration; nothing is proposed
InitId ==
    /\ OcsIdle
    /\ pf = PfIdle
    /\ sid \in {[NoStorage EXCEPT !.Latest = c] : c \in Configs}
    /\ calls = [k \in Calls |-> IdleCall]
    /\ chain = <<>>

\* ProposeSend: the proposal is propagated, or the propagation fails
ProposeSend(p, ok) ==
    /\ Len(chain) < MaxBlocks
    /\ sid' = IF ok THEN StoreProposal(sid, p) ELSE sid
    /\ UNCHANGED <<calls, chain, ocsVars, pf>>

\* ProposeVote up to the end of the locked closure
ProposeVote(k, signer, sig) ==
    /\ calls[k].pc = "idle"
    /\ LET cerr == VoteCheck(sid, signer, sig)
       IN  calls' = [calls EXCEPT ![k] =
                       [pc |-> IF cerr = "nil" THEN "propagate" ELSE "idle",
                        Signer |-> signer,
                        Signature |-> IF cerr = "nil" THEN sig ELSE NilSig,
                        result |-> IF cerr = "nil" THEN "none" ELSE cerr,
                        block |-> 0]]
    /\ UNCHANGED <<sid, chain, ocsVars, pf>>

\* ProposeVote: s.propagateConfig of the vote; on an error the call
\* dereferences the nil cerr
PropagateVote(k, ok) ==
    /\ calls[k].pc = "propagate"
    /\ IF ok
       THEN /\ sid' = StoreVote(sid, calls[k].Signer, calls[k].Signature)
            /\ calls' = [calls EXCEPT ![k].pc = "count"]
       ELSE /\ Returned(k, "panic")
            /\ UNCHANGED sid
    /\ UNCHANGED <<chain, ocsVars, pf>>

\* ProposeVote: the test on the votes and s.skipchain.AddSkipBlock
CountVotes(k, ok, cap) ==
    /\ calls[k].pc = "count"
    /\ IF ~EnoughVotes(sid)
       THEN Returned(k, "nil") /\ UNCHANGED chain
       ELSE IF sid.Proposed = NilConfig
       THEN Returned(k, "panic") /\ UNCHANGED chain
       ELSE /\ Len(chain) < cap
            /\ IF ok
               THEN /\ chain' = Append(chain, [Config |-> sid.Proposed,
                                               Votes |-> sid.Votes, Latest |-> sid.Latest])
                    /\ calls' = [calls EXCEPT ![k].pc = "update",
                                              ![k].block = Len(chain) + 1]
               ELSE Returned(k, "ErrorSkipchain") /\ UNCHANGED chain
    /\ UNCHANGED <<sid, ocsVars, pf>>

\* ProposeVote: s.propagateSkipBlock of the new block and the reply
PropagateSkipBlock(k, ok) ==
    /\ calls[k].pc = "update"
    /\ IF ok
       THEN /\ sid' = StoreSkipBlock(sid, calls[k].block, chain[calls[k].block].Config)
            /\ Returned(k, "reply")
       ELSE /\ Returned(k, "panic")
            /\ UNCHANGED sid
    /\ UNCHANGED <<chain, ocsVars, pf>>

NextId ==
    \/ \E p \in Configs, ok \in BOOLEAN : ProposeSend(p, ok)
    \/ \E k \in Calls, signer \in Devices : \E sig \in VoteSignatures(signer) :
          ProposeVote(k, signer, sig)
    \/ \E k \in Calls, ok \in BOOLEAN : PropagateVote(k, ok)
    \/ \E k \in Calls, ok \in BOOLEAN : CountVotes(k, ok, MaxBlocks)
    \/ \E k \in Calls, ok \in BOOLEAN : PropagateSkipBlock(k, ok)

SpecId == InitId /\ [][NextId]_vars

\* ------------------------------------- concurrent votes on one proposal
\* a ProposeSend was handled: a proposal is pending and has no vote yet;
\* several clients are about to call ProposeVote
InitRace ==
    /\ OcsIdle
    /\ pf = PfIdle
    /\ sid \in {StoreProposal([NoStorage EXCEPT !.Latest = c], p) : c \in Configs, p \in Configs}
    /\ calls = [k \in 1 .. MaxRace |-> IdleCall]
    /\ chain = <<>>

\* the steps of the ProposeVote calls, interleaved; the proposal is not replaced
NextRace ==
    \/ \E k \in DOMAIN calls, signer \in Devices : \E sig \in VoteSignatures(signer) :
          ProposeVote(k, signer, sig)
    \/ \E k \in DOMAIN calls, ok \in BOOLEAN : PropagateVote(k, ok)
    \/ \E k \in DOMAIN calls, ok \in BOOLEAN : CountVotes(k, ok, MaxRaceBlocks)
    \/ \E k \in DOMAIN calls, ok \in BOOLEAN : PropagateSkipBlock(k, ok)

SpecRace == InitRace /\ [][NextRace]_vars

\* ---------------------------------------------------------------- helpers
\* the tolerated number of faulty nodes, floor((n-1)/3)
FaultBudget == (n - 1) \div 3

\* the children whose first reply is the empty one
Refused == {c \in Children : Len(sent[c]) >= 1 /\ sent[c][1] = EmptyReply}

\* every child has replied exactly once
AllRepliedOnce == \A c \in Children : Len(sent[c]) = 1

\* no child has replied more than once
AtMostOneReplyEach == \A c \in Children : Len(sent[c]) <= 1

\* nothing is left for the coordinator to handle
Settled == done \/ (requests = {} /\ \A c \in Children : net[c] = <<>>)

\* the values published so far
Published == {Reencrypted[i] : i \in DOMAIN Reencrypted}

\* ---------------------------------------------------------------- C1
\* the run of C1: Start went through, there are children, each replied once, at most
\* floor((n-1)/3) of them with the empty reply, all others with a valid proof
C1_Run ==
    /\ startErr = "nil"
    /\ Children # {}
    /\ dishonest = {}
    /\ AllRepliedOnce
    /\ Cardinality(Refused) <= FaultBudget
    /\ \A c \in Children \ Refused : ProofOK(sent[c][1], U, Xc)

\* C1: if at most floor((n-1)/3) children refuse and every other child returns
\* a share with a valid proof, the coordinator never publishes false, and it
\* has published true once all replies are handled.
C1_ToleratedRefusals ==
    C1_Run => /\ FALSE \notin Published
              /\ Settled => Reencrypted = <<TRUE>>

\* ---------------------------------------------------------------- C2
\* C2: in every run the coordinator sends at most one value on Reencrypted;
\* after true or false is published no second send happens.
C2_SingleWrite == Len(Reencrypted) <= 1

\* an outcome is published while a reply is still waiting to be handled
C2_Witness ==
    /\ Len(Reencrypted) = 1
    /\ \E c \in Children : net[c] # <<>>

\* ---------------------------------------------------------------- C3
\* the replies collected so far whose recomputed challenge equals their own
VerifiedReplies == {k \in DOMAIN replies : ProofOK(replies[k], U, Xc)}

\* C3: whenever true is published, at least threshold-1 of the collected
\* replies have passed proof verification and are in Uis; a reply whose proof
\* fails does not count toward the quorum.
C3_QuorumOfVerified ==
    TRUE \in Published =>
        Cardinality({k \in VerifiedReplies : Uis[replies[k].Ui.I] = replies[k].Ui})
            >= Threshold - 1

\* ---------------------------------------------------------------- C4
\* the non-nil entries of o.Uis
UisShares == {Uis[i] : i \in DOMAIN Uis} \ {NilShare}

\* C4: when true is published, the non-empty entries of Uis are exactly the
\* coordinator's own share and the shares of the verified replies, and Uis
\* never holds a share of a reply whose proof failed.
C4_UisExact ==
    /\ TRUE \in Published =>
          UisShares = {getUI(Shared, U, Xc)} \cup {replies[k].Ui : k \in VerifiedReplies}
    /\ \A i \in DOMAIN Uis :
          Uis[i] \in {NilShare, getUI(Shared, U, Xc)} \cup {replies[k].Ui : k \in VerifiedReplies}

\* ---------------------------------------------------------------- C5
\* the run of C5: more than floor((n-1)/3) children have sent the empty reply
\* and no child has replied twice
C5_Run ==
    /\ Cardinality(Refused) > FaultBudget
    /\ AtMostOneReplyEach

\* C5: if more than floor((n-1)/3) children refuse and each child replies at
\* most once, the coordinator never publishes true, and it has published false
\* once all replies are handled.
C5_RefusalsFail ==
    C5_Run => /\ TRUE \notin Published
              /\ Settled => Reencrypted = <<FALSE>>

\* honest children refused beyond the budget and false was published
C5_Witness ==
    /\ C5_Run
    /\ dishonest = {}
    /\ startErr = "nil"
    /\ Reencrypted = <<FALSE>>

\* ---------------------------------------------------------------- C6
\* C6: when the coordinator's policy hook rejects the request, Start publishes
\* false, no request reaches any node, and the run is over.
C6_PolicyRejects ==
    startErr = "refused" =>
        /\ Reencrypted = <<FALSE>>
        /\ done
        /\ requests = {}
        /\ \A c \in Children : sent[c] = <<>> /\ childErr[c] = "none" /\ ~childDone[c]
        /\ Failures = 0 /\ replies = <<>>

\* Start was refused by the hook in a roster with other nodes
C6_Witness ==
    /\ startErr = "refused"
    /\ Verify = "reject"
    /\ Children # {}

\* ---------------------------------------------------------------- C7
\* C7: when Shared or U is unset, Start returns an error before any network
\* activity: no request is sent, the hook is not called, nothing is published.
C7_PreconditionError ==
    startErr \in {"shared", "u"} =>
        /\ requests = {}
        /\ \A c \in Children : sent[c] = <<>> /\ childErr[c] = "none" /\ ~childDone[c]
        /\ \A i \in DOMAIN hookCalls : hookCalls[i] = 0
        /\ Reencrypted = <<>>
        /\ ~done

\* Start failed on a missing U although a hook is set and other nodes exist
C7_Witness ==
    /\ startErr = "u"
    /\ Verify # "nil"
    /\ Children # {}

\* ---------------------------------------------------------------- C8
\* C8: when more than floor((n-1)/3) sends of the Broadcast fail, Start returns
\* an error and no reply is processed for the run afterwards, nor is true
\* published.
C8_BroadcastAborts ==
    startErr = "broadcast" =>
        /\ Failures = 0
        /\ replies = <<>>
        /\ TRUE \notin Published

\* ---------------------------------------------------------------- C9
\* the replies of child c the coordinator has handled
Handled(c) == SubSeq(sent[c], 1, Len(sent[c]) - Len(net[c]))

RECURSIVE EmptyHandled(_)
\* the number of empty replies of the children in cs the coordinator handled
EmptyHandled(cs) ==
    IF cs = {} THEN 0
    ELSE LET c == CHOOSE x \in cs : TRUE
         IN  Cardinality({k \in DOMAIN Handled(c) : Handled(c)[k] = EmptyReply})
             + EmptyHandled(cs \ {c})

\* the coordinator counts each handled empty reply once, and never as a share
C9_Counting ==
    /\ Failures = EmptyHandled(Children)
    /\ \A k \in DOMAIN replies : replies[k].Ui # NilShare

\* C9 as stated: a participant whose hook rejects sends exactly one empty reply
\* and its handler reports no error; the coordinator counts every such reply
\* as one failure and never as a share.
C9_RefusalNoError ==
    /\ \A c \in Children \ dishonest :
          (hook[c] = "reject" /\ childDone[c]) =>
              (sent[c] = <<EmptyReply>> /\ childErr[c] = "nil")
    /\ C9_Counting

\* C9 amended: the handler of a rejecting participant makes one send of the
\* empty reply and returns the result of that send: no error and one empty
\* reply, or the send's error and no reply; the coordinator counts every empty
\* reply it handles as one failure and never as a share.
C9_RefusalReturnsSend ==
    /\ \A c \in Children \ dishonest :
          (hook[c] = "reject" /\ childDone[c]) =>
              \/ sent[c] = <<EmptyReply>> /\ childErr[c] = "nil"
              \/ sent[c] = <<>> /\ childErr[c] = "err"
    /\ C9_Counting

\* a rejecting participant's empty reply was handled and counted
C9_Witness ==
    \E c \in Children \ dishonest :
        /\ hook[c] = "reject"
        /\ childErr[c] = "nil"
        /\ net[c] = <<>>
        /\ sent[c] = <<EmptyReply>>
        /\ Failures >= 1

\* ---------------------------------------------------------------- C10
\* C10: a repeated reply for an index already received does not count, so true
\* is published only when replies of at least threshold-1 distinct indices
\* were received.
C10_DistinctIndices ==
    TRUE \in Published =>
        Cardinality({replies[k].Ui.I : k \in DOMAIN replies}) >= Threshold - 1

\* ---------------------------------------------------------------- C11
\* the children the Broadcast of Start could not reach
FailedSends ==
    IF startErr \in {"nil", "broadcast"}
    THEN {c \in Children : c \notin requests /\ childErr[c] = "none"}
    ELSE {}

\* Start returned without error, every request that was sent has been
\* answered with a refusal or a share, and every answer has been delivered
C11_AllAnswered ==
    /\ startErr = "nil"
    /\ requests = {}
    /\ \A c \in Children : childErr[c] # "err"
    /\ done \/ \A c \in Children : net[c] = <<>>

\* C11: a run whose Start returned without error has published an outcome
\* once every send is answered or reported as failed, for every n >= 1, and
\* the failed sends count toward Failures like refusals.
C11_EventuallyPublished ==
    /\ C11_AllAnswered => Reencrypted # <<>>
    /\ C11_AllAnswered => Failures >= Cardinality(FailedSends)

\* ---------------------------------------------------------------- C12
\* the positions of the hook calls in the work of node i
VerifyAt(i) == {k \in DOMAIN work[i] : work[i][k] = "Verify"}

\* C12: on every node the policy hook is called at most once per run and
\* before any cryptographic computation of the run on that node.
C12_HookFirst ==
    \A i \in DOMAIN work :
        /\ Cardinality(VerifyAt(i)) <= 1
        /\ \A k \in VerifyAt(i) : \A j \in 1 .. (k - 1) : work[i][j] = "Verify"

\* ---------------------------------------------------------------- C13
\* C13: a reply generated from a secret x, a random scalar s and points U, Xc
\* is accepted by the verification against the public key share x*G: the
\* recomputed uiHat and hiHat are the generated ones and the recomputed
\* challenge is the reply's.
C13_Completeness ==
    pf.stage = "verified" =>
        /\ pf.uiHat = CommitUiHat(pf.s, pf.u, pf.xc)
        /\ pf.hiHat = CommitHiHat(pf.s)
        /\ pf.e = pf.reply.Ei
        /\ ProofOK(pf.reply, pf.u, pf.xc)

\* a proof over non-trivial values was generated and verified
C13_Witness ==
    /\ pf.stage = "verified"
    /\ pf.s # 0 /\ SecretOf(pf.i) > 1 /\ PointAdd(pf.u, pf.xc) > 1
    /\ pf.reply.Ei # 0

\* ---------------------------------------------------------------- C15
\* C15: a refusal increments Failures by one, and false is published on a
\* refusal exactly when the new Failures is strictly greater than the number
\* of children minus the threshold; a refusal that leaves Failures at or below
\* that number does not end the run.
C15_StrictBudget ==
    (startErr \in {"nil", "broadcast"} /\ Failures >= 1) =>
        /\ Failures = EmptyHandled(Children)
        /\ (FALSE \in Published) <=> (Failures > Cardinality(Children) - Threshold)
        /\ (Failures <= Cardinality(Children) - Threshold) => ~done

\* ---------------------------------------------------------------- C16
\* C16: once an outcome is published, no later step changes Failures, the
\* collected replies, Uis or the outcome: a late reply is ignored.
C16_LateReplyIgnored ==
    [][Reencrypted # <<>> => UNCHANGED <<Failures, replies, Uis, Reencrypted>>]_vars

\* true is published and a share arrives late
C16_Witness ==
    /\ Reencrypted = <<TRUE>>
    /\ \E c \in Children : net[c] # <<>> /\ Head(net[c]) # EmptyReply

\* ---------------------------------------------------------------- C17
\* C17: on outcome true the coordinator's own share is in slot 0 of the
\* published Uis; no reply of the aggregation replaces or removes it.
C17_OwnShareKept ==
    TRUE \in Published => Uis[0] = getUI(Shared, U, Xc)

\* ---------------------------------------------------------------- C18
\* child c's handler ran in this step
Handles(c) == childErr[c] = "none" /\ childErr'[c] # "none"

\* C18: the handler of a non-coordinator node changes none of Failures,
\* replies, Uis and the outcome; the node sends at most one reply per run and
\* its instance is finished afterwards.
C18_ParticipantFrame ==
    /\ [](\A c \in Children \ dishonest :
            /\ Len(sent[c]) <= 1
            /\ childErr[c] # "none" => (childDone[c] /\ c \notin requests))
    /\ [][(\E c \in Children \ dishonest : Handles(c)) =>
             UNCHANGED <<Failures, replies, Uis, Reencrypted, done>>]_vars

\* an honest child has answered while the coordinator already holds replies
C18_Witness ==
    \E c \in Children \ dishonest :
        /\ childDone[c]
        /\ Len(sent[c]) = 1
        /\ net[c] # <<>>
        /\ replies # <<>>

\* ---------------------------------------------------------------- C19
\* the devices of the configuration in force whose stored vote carries a
\* signature that verifies against the hash of the committed proposal
VerifiedVoters(b) ==
    {d \in b.Latest.Device \cap DOMAIN b.Votes :
        /\ b.Votes[d] # NilSig
        /\ VerifySchnorr(KeyOf(d), HashConfig(b.Config), b.Votes[d])}

\* C19: every data skipblock was added when at least Threshold devices of the
\* latest configuration (or all of them) had voted with a signature that
\* verifies against the proposal's hash; votes without signature do not count.
C19_CommitNeedsSignedVotes ==
    \A i \in 1 .. Len(chain) :
        \/ Cardinality(VerifiedVoters(chain[i])) >= chain[i].Latest.Threshold
        \/ VerifiedVoters(chain[i]) = chain[i].Latest.Device

\* ---------------------------------------------------------------- C20
\* C20: a ProposeVote of a device of the latest configuration, made while
\* nothing is proposed, returns ErrorConfigMissing and leaves the storage
\* (Votes, Proposed, Latest, Data) as it was.
C20_NoProposalError ==
    [][\A k \in DOMAIN calls :
          (/\ sid.Proposed = NilConfig
           /\ calls[k].pc = "idle"
           /\ calls'[k] # calls[k]
           /\ calls'[k].Signer \in sid.Latest.Device) =>
              (calls'[k].result = "ErrorConfigMissing" /\ sid' = sid)]_vars

\* ---------------------------------------------------------------- C21
\* C21: whatever the interleaving of the ProposeVote calls on the pending
\* proposal, the test on the votes leads to AddSkipBlock for at most one of
\* them: at most one data skipblock is added for the proposal. Stated for
\* votes that all carry a signature.
C21_OneBlockPerProposal ==
    (\A d \in DOMAIN sid.Votes : sid.Votes[d] # NilSig) => Len(chain) <= 1

====
